---- MODULE Spec2Model ----
(***************************************************************************)
(* Settings handling of CAddon (xbmc/addons/Addon.cpp).                    *)
(*                                                                         *)
(* The facade (CAddon) is translated function by function from Addon.cpp.  *)
(* Every facade function is an operator from the facade state to a result  *)
(* record holding the state after the call and the returned value.  The    *)
(* settings store (CAddonSettings) and the typed setting nodes (CSetting)  *)
(* live in other files of the repository; they are modelled from the       *)
(* store contract of the specification (section 4.1).                      *)
(***************************************************************************)
EXTENDS Integers, Sequences, FiniteSets

\* ------------------------------------------------------------------ bounds

\* Largest integer an integer setting takes in the model.
MaxInt == 0

\* ------------------------------------------------------------------ values

\* AddonInstanceId: ADDON_SETTINGS_ID and one instance id.
ADDON_SETTINGS_ID == 0

InstanceIds == {ADDON_SETTINGS_ID, 1}

\* Setting keys; "" is the empty key an accessor may be handed.
Keys == {"k", "n"}

KeyArgs == Keys \cup {""}

\* TSetting::Type() of CSettingBool, CSettingInt and CSettingString.
Types == {"boolean", "integer", "string"}

IntVals == 0 .. MaxInt

\* The strings callers hand to the accessors.
StrVals == {"0"}

\* A typed value (TSetting::Value) tagged with its type; the fields of the
\* other types stay at their zero.
BoolV(x) == [type |-> "boolean", b |-> x, i |-> 0, s |-> ""]

IntV(x) == [type |-> "integer", b |-> FALSE, i |-> x, s |-> ""]

StrV(x) == [type |-> "string", b |-> FALSE, i |-> 0, s |-> x]

ValuesOf(t) ==
  CASE t = "boolean" -> {BoolV(x) : x \in BOOLEAN}
    [] t = "integer" -> {IntV(x) : x \in IntVals}
    [] OTHER -> {StrV(x) : x \in StrVals}

\* Decimal text of a small natural number.
Digit(d) ==
  CASE d = 0 -> "0" [] d = 1 -> "1" [] d = 2 -> "2" [] d = 3 -> "3"
    [] d = 4 -> "4" [] d = 5 -> "5" [] d = 6 -> "6" [] d = 7 -> "7"
    [] d = 8 -> "8" [] OTHER -> "9"

RECURSIVE IntToStr(_)
IntToStr(i) == IF i < 10 THEN Digit(i) ELSE IntToStr(i \div 10) \o Digit(i % 10)

\* CSetting::ToString: the text a value is saved as.
ToString(v) ==
  CASE v.type = "boolean" -> (IF v.b THEN "true" ELSE "false")
    [] v.type = "integer" -> IntToStr(v.i)
    [] OTHER -> v.s

\* CSetting::FromString: parse text into a value of type t; ok is FALSE (and
\* the setting keeps its value) when the text is no value of that type.
FromString(t, str) ==
  CASE t = "boolean" ->
         IF str = "true" THEN [ok |-> TRUE, v |-> BoolV(TRUE)]
         ELSE IF str = "false" THEN [ok |-> TRUE, v |-> BoolV(FALSE)]
         ELSE [ok |-> FALSE, v |-> BoolV(FALSE)]
    [] t = "integer" ->
         IF \E x \in IntVals : IntToStr(x) = str
         THEN [ok |-> TRUE, v |-> IntV(CHOOSE x \in IntVals : IntToStr(x) = str)]
         ELSE [ok |-> FALSE, v |-> IntV(0)]
    [] OTHER -> [ok |-> TRUE, v |-> StrV(str)]

\* ------------------------------------------------------------------ documents

\* A setting node: a typed value and its default.  NoNode is a key the
\* store does not define.
NoNode == [defined |-> FALSE, val |-> StrV(""), def |-> StrV("")]

Node(v) == [defined |-> TRUE, val |-> v, def |-> v]

NoNodes == [key \in Keys |-> NoNode]

\* The definitions a schema document carries.  "k" defines the boolean
\* setting k with default true; "empty" is well formed and defines nothing;
\* "bad" is a document that is no settings definition.
Schemas == {"k", "empty", "bad"}

SchemaNodes(schema) ==
  IF schema = "k" THEN [NoNodes EXCEPT !["k"] = Node(BoolV(TRUE))] ELSE NoNodes

\* The values a document carries: per key, the text saved for it, if any.
NoText == [has |-> FALSE, s |-> ""]

Text(str) == [has |-> TRUE, s |-> str]

NoTexts == [key \in Keys |-> NoText]

\* CXBMCTinyXML: root is FALSE for a document without a root element.
Doc(root, schema, vals) == [root |-> root, schema |-> schema, vals |-> vals]

EmptyDoc == Doc(FALSE, "bad", NoTexts)

\* A file: absent, present but not parsable by LoadFile, or a document.
NoFile == [exists |-> FALSE, parses |-> FALSE, doc |-> EmptyDoc]

BadFile == [exists |-> TRUE, parses |-> FALSE, doc |-> EmptyDoc]

FileOf(doc) == [exists |-> TRUE, parses |-> TRUE, doc |-> doc]

\* The schema files an add-on may ship.
SchemaFiles == {NoFile, BadFile} \cup {FileOf(Doc(TRUE, sc, NoTexts)) : sc \in Schemas}

\* The user-values files something other than SaveSettings may leave.
ForeignUserFiles == {NoFile, BadFile}

\* The documents a caller hands to SettingsFromXML: one without a root
\* element, a values document, a definition of k that also carries a value
\* for it, and a definition of no setting.
CallerDocs ==
  {EmptyDoc,
   Doc(TRUE, "bad", [NoTexts EXCEPT !["k"] = Text("false")]),
   Doc(TRUE, "k", [NoTexts EXCEPT !["k"] = Text("false")]),
   Doc(TRUE, "empty", NoTexts)}

\* The typed updates callers make: the schema key k through the boolean
\* accessor, the key n (which no schema defines) through the integer and
\* the string accessor.
TypedUpdates ==
  {<<"k", BoolV(x)>> : x \in BOOLEAN} \cup
  {<<"n", IntV(x)>> : x \in IntVals} \cup
  {<<"n", StrV(str)>> : str \in StrVals}

\* The typed gets callers make: of k as a boolean, of n as an integer
\* (n may be undefined, an integer or a string then) and of the empty key.
TypedGets == {<<"k", "boolean">>, <<"n", "integer">>, <<"", "boolean">>}

\* The untyped updates callers make.
UntypedUpdates == {<<"n", str>> : str \in StrVals}

\* ------------------------------------------------------------------ store

\* CAddonSettings.  exists is FALSE for m_settings == nullptr.
NullStore == [exists |-> FALSE, initialized |-> FALSE, loaded |-> FALSE, nodes |-> NoNodes]

NewStore == [NullStore EXCEPT !.exists = TRUE]

IsInitialized(st) == st.initialized

IsLoaded(st) == st.loaded

\* Initialize(doc): build the nodes from a schema document.  Fails on a
\* store that is already initialized and on a malformed schema.
StoreInitialize(st, doc) ==
  IF st.initialized \/ ~doc.root \/ doc.schema = "bad"
  THEN [st |-> st, ret |-> FALSE]
  ELSE [st |-> [st EXCEPT !.initialized = TRUE, !.nodes = SchemaNodes(doc.schema)],
        ret |-> TRUE]

\* Uninitialize(): back to the state of a new store.
StoreUninitialize(st) == NewStore

\* The node after FromString(str): unchanged when str does not parse.
NodeFromString(node, str) ==
  LET p == FromString(node.val.type, str)
  IN IF p.ok THEN [node EXCEPT !.val = p.v] ELSE node

\* Load(doc): apply the document's values to the defined nodes by key and
\* mark the store loaded.  Fails if the store is not initialized.
StoreLoad(st, doc) ==
  IF ~st.initialized
  THEN [st |-> st, ret |-> FALSE]
  ELSE [st |-> [st EXCEPT !.loaded = TRUE,
                          !.nodes = [key \in Keys |->
                             IF st.nodes[key].defined /\ doc.vals[key].has
                             THEN NodeFromString(st.nodes[key], doc.vals[key].s)
                             ELSE st.nodes[key]]],
        ret |-> TRUE]

\* Save(doc): the document holding the text of every defined node.
StoreSave(st) ==
  IF ~st.initialized
  THEN [doc |-> EmptyDoc, ret |-> FALSE]
  ELSE [doc |-> Doc(TRUE, "bad", [key \in Keys |->
                   IF st.nodes[key].defined THEN Text(ToString(st.nodes[key].val))
                   ELSE NoText]),
        ret |-> TRUE]

\* SetDefaults(): every node back to its default.
StoreSetDefaults(st) ==
  [st EXCEPT !.nodes = [key \in Keys |->
     IF st.nodes[key].defined THEN [st.nodes[key] EXCEPT !.val = st.nodes[key].def]
     ELSE st.nodes[key]]]

\* SetLoaded()
StoreSetLoaded(st) == [st EXCEPT !.loaded = TRUE]

\* GetSetting(key): the node of key; found is FALSE for nullptr.
StoreGetSetting(st, key) ==
  IF key \in Keys /\ st.nodes[key].defined
  THEN [found |-> TRUE, node |-> st.nodes[key]]
  ELSE [found |-> FALSE, node |-> NoNode]

\* HasSettings(): at least one key is defined.
StoreHasSettings(st) == \E key \in Keys : st.nodes[key].defined

\* The default of a setting defined at run time.
Zero(type) ==
  CASE type = "boolean" -> BoolV(FALSE)
    [] type = "integer" -> IntV(0)
    [] OTHER -> StrV("")

\* AddSetting(key, value): define an unknown key with the type of value;
\* nullptr (found FALSE) when the store is not initialized, the key is empty
\* or the key exists with another type.
StoreAddSetting(st, key, v) ==
  IF ~st.initialized \/ key \notin Keys
  THEN [st |-> st, found |-> FALSE]
  ELSE IF st.nodes[key].defined
  THEN [st |-> st, found |-> st.nodes[key].val.type = v.type]
  ELSE [st |-> [st EXCEPT !.nodes[key] = Node(Zero(v.type))], found |-> TRUE]

\* CSetting::SetValue(value) on the node of key.
StoreSetValue(st, key, v) == [st EXCEPT !.nodes[key].val = v]

\* ------------------------------------------------------------------ facade

\* What one top-level call did: reads of the schema file, calls of the
\* store's Initialize (initOnInit: on a store already initialized), reads
\* and writes of the user-values file (userEarly: with the store not
\* initialized), host notifications, whether a load attempt failed on the
\* schema, whether SettingsFromXML initialized the store, and the
\* LoadSettings calls started by GetSettings (lazyAttempt: one of them did not
\* return on m_loadSettingsFailed).
NoTrace ==
  [schemaReads |-> 0, initCalls |-> 0, initOnInit |-> FALSE, userReads |-> 0,
   userWrites |-> 0, userEarly |-> FALSE, notifies |-> 0, schemaFail |-> FALSE,
   xmlInit |-> FALSE, lazyLoads |-> 0, lazyAttempt |-> FALSE]

\* CAddon::CAddon: the members of a new facade over the given files.
Construct(schema, user) ==
  [m_settings |-> NullStore, m_loadSettingsFailed |-> FALSE,
   m_hasUserSettings |-> FALSE, schemaFile |-> schema, userFile |-> user,
   tr |-> NoTrace]

\* The result of a call: the state it leaves and the value it returns.
R(s, ret) == [s |-> s, ret |-> ret]

SettingsInitialized(s, id) == s.m_settings.exists /\ IsInitialized(s.m_settings)

SettingsLoaded(s, id) == s.m_settings.exists /\ IsLoaded(s.m_settings)

HasSettingsToSave(s, id) == SettingsLoaded(s, id)

RECURSIVE LoadSettings(_, _, _, _)
RECURSIVE GetSettings(_, _)
RECURSIVE LoadUserSettings(_, _)
RECURSIVE SettingsFromXML(_, _, _, _)

\* With(v, LAMBDA x : e) is e with x naming the value v: a local variable
\* of the function.
With(v, Op(_)) == Op(v)

\* GetSettings(id)->Initialize(doc), as LoadSettings and SettingsFromXML call it.
InitializeSettings(s, doc, id) ==
  With(GetSettings(s, id).s, LAMBDA g :
  With(StoreInitialize(g.m_settings, doc), LAMBDA ini :
    R([g EXCEPT !.m_settings = ini.st,
                !.tr.initCalls = @ + 1,
                !.tr.initOnInit = @ \/ IsInitialized(g.m_settings)],
      ini.ret)))

\* GetSettings(id)->Uninitialize()
UninitializeSettings(s, id) ==
  With(GetSettings(s, id).s, LAMBDA g :
    [g EXCEPT !.m_settings = StoreUninitialize(g.m_settings)])

\* LoadFile of the settings definition file.
ReadSchemaFile(s) == [s EXCEPT !.tr.schemaReads = @ + 1]

\* A LoadSettings call returning false at the definition file or at Initialize.
SchemaFailure(s) == R([s EXCEPT !.tr.schemaFail = TRUE], FALSE)

\* The load attempt returning what LoadUserSettings returns.
AttemptLoad_ReturnsUserLoad(s, file, bForce, loadUserSettings, id) ==
  With([s EXCEPT !.m_loadSettingsFailed = TRUE], LAMBDA s1 :
  With(IF SettingsInitialized(s1, id) /\ bForce
       THEN UninitializeSettings(s1, id)
       ELSE s1, LAMBDA s2 :
  With(ReadSchemaFile(s2), LAMBDA s3 :
    IF ~file.parses THEN SchemaFailure(s3)
    ELSE
      With(InitializeSettings(s3, file.doc, id), LAMBDA ini :
        IF ~ini.ret THEN SchemaFailure(ini.s)
        ELSE
          With([ini.s EXCEPT !.m_loadSettingsFailed = FALSE], LAMBDA s4 :
            IF loadUserSettings
            THEN LoadUserSettings(s4, id)
            ELSE R(s4, TRUE))))))

\* The load attempt setting m_loadSettingsFailed only where it fails.
AttemptLoad_FlagSetLate(s, file, bForce, loadUserSettings, id) ==
  With(IF SettingsInitialized(s, id) /\ bForce
       THEN UninitializeSettings(s, id)
       ELSE s, LAMBDA s2 :
  With(ReadSchemaFile(s2), LAMBDA s3 :
    IF ~file.parses THEN SchemaFailure([s3 EXCEPT !.m_loadSettingsFailed = TRUE])
    ELSE
      With(InitializeSettings(s3, file.doc, id), LAMBDA ini :
        IF ~ini.ret THEN SchemaFailure([ini.s EXCEPT !.m_loadSettingsFailed = TRUE])
        ELSE
          With([ini.s EXCEPT !.m_loadSettingsFailed = FALSE], LAMBDA s4 :
            IF loadUserSettings
            THEN R(LoadUserSettings(s4, id).s, TRUE)
            ELSE R(s4, TRUE)))))

\* LoadSettings from the point where the load attempt starts (line 81); file
\* is what LoadFile finds at the path of the settings definition.
AttemptLoad(s, file, bForce, loadUserSettings, id) ==
  With([s EXCEPT !.m_loadSettingsFailed = TRUE], LAMBDA s1 :
  With(IF SettingsInitialized(s1, id) /\ bForce
       THEN UninitializeSettings(s1, id)
       ELSE s1, LAMBDA s2 :
  With(ReadSchemaFile(s2), LAMBDA s3 :
    IF ~file.parses THEN SchemaFailure(s3)
    ELSE
      With(InitializeSettings(s3, file.doc, id), LAMBDA ini :
        IF ~ini.ret THEN SchemaFailure(ini.s)
        ELSE
          With([ini.s EXCEPT !.m_loadSettingsFailed = FALSE], LAMBDA s4 :
            IF loadUserSettings
            THEN R(LoadUserSettings(s4, id).s, TRUE)
            ELSE R(s4, TRUE))))))

\* LoadSettings without the check of m_loadSettingsFailed.
LoadSettings_NoStickyFailure(s, bForce, loadUserSettings, id) ==
  IF SettingsInitialized(s, id) /\ ~bForce THEN R(s, TRUE)
  ELSE AttemptLoad(s, s.schemaFile, bForce, loadUserSettings, id)

\* LoadSettings taking a missing definition file for a definition of no
\* setting instead of failing.
LoadSettings_MissingFileIsEmpty(s, bForce, loadUserSettings, id) ==
  IF SettingsInitialized(s, id) /\ ~bForce THEN R(s, TRUE)
  ELSE IF s.m_loadSettingsFailed THEN R(s, FALSE)
  ELSE IF s.schemaFile.exists
  THEN AttemptLoad(s, s.schemaFile, bForce, loadUserSettings, id)
  ELSE AttemptLoad(s, FileOf(Doc(TRUE, "empty", NoTexts)), bForce, loadUserSettings, id)

\* LoadSettings without the early return on initialized settings.
LoadSettings_NoInitializedCheck(s, bForce, loadUserSettings, id) ==
  IF s.m_loadSettingsFailed THEN R(s, FALSE)
  ELSE AttemptLoad(s, s.schemaFile, bForce, loadUserSettings, id)

LoadSettings(s, bForce, loadUserSettings, id) ==
  IF SettingsInitialized(s, id) /\ ~bForce THEN R(s, TRUE)
  ELSE IF s.m_loadSettingsFailed THEN R(s, FALSE)
  ELSE AttemptLoad(s, s.schemaFile, bForce, loadUserSettings, id)

GetSettings(s, id) ==
  IF ~s.m_settings.exists
  THEN R(LoadSettings([s EXCEPT !.m_settings = NewStore,
                                !.tr.lazyLoads = @ + 1,
                                !.tr.lazyAttempt = @ \/ ~s.m_loadSettingsFailed],
                      FALSE, TRUE, id).s, TRUE)
  ELSE R(s, TRUE)

\* CFile::Exists / LoadFile of the user-values file.
ProbeUserFile(s, id) ==
  [s EXCEPT !.tr.userEarly = @ \/ ~SettingsInitialized(s, id)]

ReadUserFile(s, id) ==
  [s EXCEPT !.tr.userReads = @ + 1,
            !.tr.userEarly = @ \/ ~SettingsInitialized(s, id)]

\* GetSettings(id)->SetLoaded()
SetLoadedSettings(s, id) ==
  With(GetSettings(s, id).s, LAMBDA g :
    [g EXCEPT !.m_settings = StoreSetLoaded(g.m_settings)])

\* LoadUserSettings once the user-values file is known to exist (line 153).
LoadUserFile(s, id) ==
  With(ReadUserFile(s, id), LAMBDA s2 :
    IF ~s2.userFile.parses THEN R(s2, FALSE)
    ELSE SettingsFromXML(s2, s2.userFile.doc, FALSE, id))

\* LoadUserSettings without the check that the settings are initialized.
LoadUserSettings_NoInitCheck(s, id) ==
  With(ProbeUserFile([s EXCEPT !.m_hasUserSettings = FALSE], id), LAMBDA s1 :
    IF ~s1.userFile.exists THEN R(SetLoadedSettings(s1, id), TRUE)
    ELSE LoadUserFile(s1, id))

\* LoadUserSettings that does not mark the settings loaded when there is no
\* user-values file.
LoadUserSettings_NoSetLoaded(s, id) ==
  IF ~SettingsInitialized(s, id) THEN R(s, FALSE)
  ELSE
    With(ProbeUserFile([s EXCEPT !.m_hasUserSettings = FALSE], id), LAMBDA s1 :
      IF ~s1.userFile.exists THEN R(GetSettings(s1, id).s, TRUE)
      ELSE LoadUserFile(s1, id))

\* LoadUserSettings that marks the settings loaded, with their defaults,
\* when the user-values file does not parse.
LoadUserSettings_LoadedOnParseFailure(s, id) ==
  IF ~SettingsInitialized(s, id) THEN R(s, FALSE)
  ELSE
    With(ProbeUserFile([s EXCEPT !.m_hasUserSettings = FALSE], id), LAMBDA s1 :
      IF ~s1.userFile.exists THEN R(SetLoadedSettings(s1, id), TRUE)
      ELSE
        With(ReadUserFile(s1, id), LAMBDA s2 :
          IF ~s2.userFile.parses
          THEN R([s2 EXCEPT !.m_settings =
                    StoreSetLoaded(StoreSetDefaults(s2.m_settings))], FALSE)
          ELSE SettingsFromXML(s2, s2.userFile.doc, FALSE, id)))

\* LoadUserSettings that looks for the user-values file before it checks
\* that the settings are initialized.
LoadUserSettings_ProbeFirst(s, id) ==
  With(ProbeUserFile(s, id), LAMBDA s0 :
    IF ~SettingsInitialized(s0, id) THEN R(s0, FALSE)
    ELSE
      With([s0 EXCEPT !.m_hasUserSettings = FALSE], LAMBDA s1 :
        IF ~s1.userFile.exists THEN R(SetLoadedSettings(s1, id), TRUE)
        ELSE LoadUserFile(s1, id)))

LoadUserSettings(s, id) ==
  IF ~SettingsInitialized(s, id) THEN R(s, FALSE)
  ELSE
    With(ProbeUserFile([s EXCEPT !.m_hasUserSettings = FALSE], id), LAMBDA s1 :
      IF ~s1.userFile.exists THEN R(SetLoadedSettings(s1, id), TRUE)
      ELSE LoadUserFile(s1, id))

\* GetSettings(id)->SetDefaults()
SetDefaultSettings(s, id) ==
  With(GetSettings(s, id).s, LAMBDA g :
    [g EXCEPT !.m_settings = StoreSetDefaults(g.m_settings)])

\* GetSettings(id)->Load(doc), and what SettingsFromXML returns for it.
LoadSettingsFrom(s, doc, id) ==
  With(GetSettings(s, id).s, LAMBDA g :
  With(StoreLoad(g.m_settings, doc), LAMBDA ld :
    IF ~ld.ret THEN R([g EXCEPT !.m_settings = ld.st], FALSE)
    ELSE R([g EXCEPT !.m_settings = ld.st, !.m_hasUserSettings = TRUE], TRUE)))

SettingsFromXML(s, doc, loadDefaults, id) ==
  IF ~doc.root THEN R(s, FALSE)
  ELSE
    With(IF ~SettingsInitialized(s, id)
         THEN With(InitializeSettings(s, doc, id), LAMBDA i :
                R([i.s EXCEPT !.tr.xmlInit = @ \/ i.ret], i.ret))
         ELSE R(s, TRUE), LAMBDA ini :
      IF ~ini.ret THEN R(ini.s, FALSE)
      ELSE IF loadDefaults THEN LoadSettingsFrom(SetDefaultSettings(ini.s, id), doc, id)
      ELSE LoadSettingsFrom(ini.s, doc, id))

\* HasSettings that forces the load.
HasSettings_Forced(s, id) ==
  With(LoadSettings(s, TRUE, TRUE, id), LAMBDA l :
    R(l.s, l.ret /\ StoreHasSettings(l.s.m_settings)))

HasSettings(s, id) ==
  With(LoadSettings(s, FALSE, TRUE, id), LAMBDA l :
    R(l.s, l.ret /\ StoreHasSettings(l.s.m_settings)))

CanHaveAddonOrInstanceSettings(s) == HasSettings(s, ADDON_SETTINGS_ID)

HasUserSettings(s, id) ==
  With(LoadSettings(s, FALSE, TRUE, id), LAMBDA l :
    IF ~l.ret THEN R(l.s, FALSE)
    ELSE R(l.s, SettingsLoaded(l.s, id) /\ l.s.m_hasUserSettings))

ReloadSettings(s, id) == LoadSettings(s, TRUE, TRUE, id)

ResetSettings(s, id) == [s EXCEPT !.m_settings = NullStore]

\* SettingsToXML(doc, id): the document and whether it was filled.
SettingsToXML(s, id) ==
  IF ~SettingsInitialized(s, id) THEN [doc |-> EmptyDoc, ret |-> FALSE]
  ELSE StoreSave(s.m_settings)

\* doc.SaveFile(m_userSettingsPath)
WriteUserFile(s, doc, id) ==
  [s EXCEPT !.userFile = FileOf(doc),
            !.tr.userWrites = @ + 1,
            !.tr.userEarly = @ \/ ~SettingsInitialized(s, id)]

\* CServiceBroker::GetAddonMgr().ReloadSettings(ID(), id)
NotifyHost(s, id) == [s EXCEPT !.tr.notifies = @ + 1]

\* SaveSettings that does not write the document it built.
SaveSettings_NoWrite(s, id) ==
  IF ~HasSettingsToSave(s, id) THEN s
  ELSE NotifyHost([s EXCEPT !.m_hasUserSettings = TRUE], id)

\* SaveSettings without the check that there are settings to save.
SaveSettings_NoLoadedCheck(s, id) ==
  With(SettingsToXML(s, id), LAMBDA x :
  With(IF x.ret THEN WriteUserFile(s, x.doc, id) ELSE s, LAMBDA s1 :
    NotifyHost([s1 EXCEPT !.m_hasUserSettings = TRUE], id)))

SaveSettings(s, id) ==
  IF ~HasSettingsToSave(s, id) THEN s
  ELSE
    With(SettingsToXML(s, id), LAMBDA x :
    With(IF x.ret THEN WriteUserFile(s, x.doc, id) ELSE s, LAMBDA s1 :
      NotifyHost([s1 EXCEPT !.m_hasUserSettings = TRUE], id)))

\* GetSetting(key, id): ret is the returned string.
GetSetting(s, key, id) ==
  IF key = "" THEN R(s, "")
  ELSE
    With(LoadSettings(s, FALSE, TRUE, id), LAMBDA l :
      IF ~l.ret THEN R(l.s, "")
      ELSE
        With(StoreGetSetting(l.s.m_settings, key), LAMBDA setting :
          IF setting.found THEN R(l.s, ToString(setting.node.val)) ELSE R(l.s, "")))

\* GetSettingValue without the comparison of the setting's type.
GetSettingValue_NoTypeCheck(s, type, key, value, id) ==
  IF key = "" THEN [s |-> s, ret |-> FALSE, value |-> value]
  ELSE
    With(HasSettings(s, id), LAMBDA h :
      IF ~h.ret THEN [s |-> h.s, ret |-> FALSE, value |-> value]
      ELSE
        With(GetSettings(h.s, id).s, LAMBDA g :
        With(StoreGetSetting(g.m_settings, key), LAMBDA setting :
          IF ~setting.found
          THEN [s |-> g, ret |-> FALSE, value |-> value]
          ELSE [s |-> g, ret |-> TRUE, value |-> setting.node.val])))

\* GetSettingValue<TSetting>(addon, id, key, value): value is the caller's
\* variable, passed by reference, as the call leaves it.
GetSettingValue(s, type, key, value, id) ==
  IF key = "" THEN [s |-> s, ret |-> FALSE, value |-> value]
  ELSE
    With(HasSettings(s, id), LAMBDA h :
      IF ~h.ret THEN [s |-> h.s, ret |-> FALSE, value |-> value]
      ELSE
        With(GetSettings(h.s, id).s, LAMBDA g :
        With(StoreGetSetting(g.m_settings, key), LAMBDA setting :
          IF ~setting.found \/ setting.node.val.type # type
          THEN [s |-> g, ret |-> FALSE, value |-> value]
          ELSE [s |-> g, ret |-> TRUE, value |-> setting.node.val])))

UpdateSetting(s, key, value, id) ==
  IF key = "" THEN s
  ELSE
    With(LoadSettings(s, FALSE, TRUE, id), LAMBDA l :
      IF ~l.ret THEN l.s
      ELSE
        With(StoreGetSetting(l.s.m_settings, key), LAMBDA setting :
        With(IF setting.found THEN [st |-> l.s.m_settings, found |-> TRUE]
             ELSE StoreAddSetting(l.s.m_settings, key, StrV(value)), LAMBDA add :
          IF ~add.found THEN [l.s EXCEPT !.m_settings = add.st]
          ELSE [l.s EXCEPT !.m_settings =
                  [add.st EXCEPT !.nodes[key] =
                     NodeFromString(add.st.nodes[key], value)]])))

\* UpdateSettingValue<TSetting>(addon, id, key, value); value carries its type.
UpdateSettingValue(s, key, value, id) ==
  IF key = "" THEN R(s, FALSE)
  ELSE
    With(HasSettings(s, id), LAMBDA h :
      IF ~h.ret THEN R(h.s, FALSE)
      ELSE
        With(GetSettings(h.s, id).s, LAMBDA g :
        With(StoreGetSetting(g.m_settings, key), LAMBDA setting :
        With(GetSettings(g, id).s, LAMBDA g2 :
        With(IF setting.found THEN [st |-> g.m_settings, found |-> TRUE]
             ELSE StoreAddSetting(g2.m_settings, key, value), LAMBDA add :
        With([g2 EXCEPT !.m_settings = add.st], LAMBDA s1 :
          IF ~add.found THEN R(s1, FALSE)
          ELSE IF add.st.nodes[key].val.type # value.type THEN R(s1, FALSE)
          ELSE R([s1 EXCEPT !.m_settings = StoreSetValue(add.st, key, value)],
                 TRUE)))))))

\* ------------------------------------------------------------------ state

VARIABLES
  m_settings,            \* CAddon::m_settings
  m_loadSettingsFailed,  \* CAddon::m_loadSettingsFailed
  m_hasUserSettings,     \* CAddon::m_hasUserSettings
  schemaFile,            \* <addon path>/resources/settings.xml
  userFile,              \* m_userSettingsPath: <profile path>/settings.xml
  call,                  \* the last call: its arguments, result and trace
  hist                   \* history of the facade (see NoHist)

vars == <<m_settings, m_loadSettingsFailed, m_hasUserSettings, schemaFile, userFile,
          call, hist>>

\* The facade and its files as the next call finds them.
Cur ==
  [m_settings |-> m_settings, m_loadSettingsFailed |-> m_loadSettingsFailed,
   m_hasUserSettings |-> m_hasUserSettings, schemaFile |-> schemaFile,
   userFile |-> userFile, tr |-> NoTrace]

\* The record of a call; the fields an operation does not have stay as here.
NoCall ==
  [op |-> "construct", id |-> ADDON_SETTINGS_ID, key |-> "", force |-> FALSE,
   ret |-> FALSE, str |-> "", arg |-> StrV(""), out |-> StrV(""),
   tr |-> NoTrace]

Call(op, id) == [NoCall EXCEPT !.op = op, !.id = id]

\* The operations that neither update a setting nor ask for a load, reload,
\* reset or save.
Queries ==
  {"HasSettings", "HasUserSettings",
   "SettingsInitialized", "SettingsLoaded", "HasSettingsToSave", "GetSetting",
   "GetSettingValue"}

\* History of the facade since its construction:
\*   schemaFailed  a LoadSettings call failed on the schema
\*   xmlInit       SettingsFromXML initialized the store from its document
\*   noSchema      the add-on never had a schema file
\*   phase         "fresh": no call yet;
\*                 "got": fresh, then a typed get of schema key mkey with no
\*                 user-values file, then queries only;
\*                 "updated": a typed update of schema key mkey returned true
\*                 with no user-values file; "saved": then SaveSettings;
\*                 "restored": then a new facade on the same files, then
\*                 queries only; "none" otherwise
\*   mkey, mval    the key of the phase and its value (the default for "got")
\*   mloaded       the store was loaded after the typed update
NoHist(schema) ==
  [schemaFailed |-> FALSE, xmlInit |-> FALSE, noSchema |-> ~schema.exists,
   phase |-> "fresh", mkey |-> "", mval |-> StrV(""), mloaded |-> FALSE]

\* The node the schema file defines for key, NoNode if it defines none.
SchemaNode(file, key) ==
  IF file.parses /\ file.doc.root /\ key \in Keys
  THEN SchemaNodes(file.doc.schema)[key]
  ELSE NoNode

NextPhase(c, s2) ==
  LET node == SchemaNode(schemaFile, c.key)
  IN CASE c.op = "UpdateSettingValue" /\ c.ret /\ node.defined
            /\ node.val.type = c.arg.type /\ ~userFile.exists ->
            [hist EXCEPT !.phase = "updated", !.mkey = c.key, !.mval = c.arg,
                         !.mloaded = SettingsLoaded(s2, c.id)]
       [] hist.phase = "fresh" /\ c.op = "GetSettingValue" /\ node.defined
            /\ node.val.type = c.arg.type /\ ~userFile.exists ->
            [hist EXCEPT !.phase = "got", !.mkey = c.key, !.mval = node.def]
       [] hist.phase \in {"got", "restored"} /\ c.op \in Queries -> hist
       [] hist.phase = "updated" /\ c.op = "SaveSettings" ->
            [hist EXCEPT !.phase = "saved"]
       [] OTHER ->
            [hist EXCEPT !.phase = "none", !.mkey = "", !.mval = StrV(""),
                         !.mloaded = FALSE]

\* A call c that leaves the facade in state s2.
Commit(s2, c) ==
  /\ m_settings' = s2.m_settings
  /\ m_loadSettingsFailed' = s2.m_loadSettingsFailed
  /\ m_hasUserSettings' = s2.m_hasUserSettings
  /\ schemaFile' = s2.schemaFile
  /\ userFile' = s2.userFile
  /\ call' = [c EXCEPT !.tr = s2.tr]
  /\ hist' = [NextPhase(c, s2) EXCEPT
                !.schemaFailed = @ \/ s2.tr.schemaFail,
                !.xmlInit = @ \/ s2.tr.xmlInit]

Init ==
  /\ schemaFile \in SchemaFiles
  /\ userFile \in ForeignUserFiles
  /\ m_settings = NullStore
  /\ m_loadSettingsFailed = FALSE
  /\ m_hasUserSettings = FALSE
  /\ call = NoCall
  /\ hist = NoHist(schemaFile)

\* ------------------------------------------------------------------ actions

\* A new CAddon object for the same add-on: same files, new members.
DoConstruct ==
  LET s2 == Construct(schemaFile, userFile)
  IN /\ m_settings' = s2.m_settings
     /\ m_loadSettingsFailed' = s2.m_loadSettingsFailed
     /\ m_hasUserSettings' = s2.m_hasUserSettings
     /\ UNCHANGED <<schemaFile, userFile>>
     /\ call' = NoCall
     /\ hist' = IF hist.phase = "saved"
                THEN [hist EXCEPT !.phase = "restored", !.schemaFailed = FALSE,
                                  !.xmlInit = FALSE]
                ELSE [NoHist(schemaFile) EXCEPT !.noSchema = hist.noSchema]

\* The add-on is installed or updated with another schema file.
SchemaFileChanges ==
  \E f \in SchemaFiles :
    /\ f # schemaFile
    /\ schemaFile' = f
    /\ call' = Call("schemaFileChanges", ADDON_SETTINGS_ID)
    /\ hist' = IF hist.phase = "fresh"
               THEN [hist EXCEPT !.noSchema = @ /\ ~f.exists]
               ELSE [hist EXCEPT !.noSchema = @ /\ ~f.exists, !.phase = "none",
                                 !.mkey = "", !.mval = StrV(""), !.mloaded = FALSE]
    /\ UNCHANGED <<m_settings, m_loadSettingsFailed, m_hasUserSettings, userFile>>

\* The user-values file is removed or damaged on disk.
UserFileChanges ==
  \E f \in ForeignUserFiles :
    /\ f # userFile
    /\ userFile' = f
    /\ call' = Call("userFileChanges", ADDON_SETTINGS_ID)
    /\ hist' = IF hist.phase = "fresh" THEN hist
               ELSE [hist EXCEPT !.phase = "none", !.mkey = "", !.mval = StrV(""),
                                 !.mloaded = FALSE]
    /\ UNCHANGED <<m_settings, m_loadSettingsFailed, m_hasUserSettings, schemaFile>>

\* HasSettings(), and CanHaveAddonOrInstanceSettings(), which is the same call.
DoHasSettings ==
  LET r == CanHaveAddonOrInstanceSettings(Cur)
  IN Commit(r.s, [Call("HasSettings", ADDON_SETTINGS_ID) EXCEPT !.ret = r.ret])

DoSettingsInitialized ==
  Commit(Cur, [Call("SettingsInitialized", ADDON_SETTINGS_ID) EXCEPT
                 !.ret = SettingsInitialized(Cur, ADDON_SETTINGS_ID)])

DoSettingsLoaded ==
  Commit(Cur, [Call("SettingsLoaded", ADDON_SETTINGS_ID) EXCEPT
                 !.ret = SettingsLoaded(Cur, ADDON_SETTINGS_ID)])

DoLoadSettings ==
  \E bForce \in BOOLEAN, loadUserSettings \in BOOLEAN :
    LET r == LoadSettings(Cur, bForce, loadUserSettings, ADDON_SETTINGS_ID)
    IN Commit(r.s, [Call("LoadSettings", ADDON_SETTINGS_ID) EXCEPT
                      !.force = bForce, !.ret = r.ret])

DoHasUserSettings ==
  LET r == HasUserSettings(Cur, ADDON_SETTINGS_ID)
  IN Commit(r.s, [Call("HasUserSettings", ADDON_SETTINGS_ID) EXCEPT !.ret = r.ret])

DoReloadSettings ==
  LET r == ReloadSettings(Cur, ADDON_SETTINGS_ID)
  IN Commit(r.s, [Call("ReloadSettings", ADDON_SETTINGS_ID) EXCEPT
                    !.force = TRUE, !.ret = r.ret])

DoResetSettings ==
  \E id \in InstanceIds :
    Commit(ResetSettings(Cur, id), Call("ResetSettings", id))

DoLoadUserSettings ==
  LET r == LoadUserSettings(Cur, ADDON_SETTINGS_ID)
  IN Commit(r.s, [Call("LoadUserSettings", ADDON_SETTINGS_ID) EXCEPT !.ret = r.ret])

DoHasSettingsToSave ==
  Commit(Cur, [Call("HasSettingsToSave", ADDON_SETTINGS_ID) EXCEPT
                 !.ret = HasSettingsToSave(Cur, ADDON_SETTINGS_ID)])

DoSaveSettings ==
  Commit(SaveSettings(Cur, ADDON_SETTINGS_ID), Call("SaveSettings", ADDON_SETTINGS_ID))

DoGetSetting ==
  \E key \in KeyArgs :
    LET r == GetSetting(Cur, key, ADDON_SETTINGS_ID)
    IN Commit(r.s, [Call("GetSetting", ADDON_SETTINGS_ID) EXCEPT
                      !.key = key, !.str = r.ret])

\* GetSettingBool, GetSettingInt, GetSettingString; arg is the caller's
\* variable before the call (zero-initialized), out the variable after it.
DoGetSettingValue ==
  \E g \in TypedGets :
    LET r == GetSettingValue(Cur, g[2], g[1], Zero(g[2]), ADDON_SETTINGS_ID)
    IN Commit(r.s, [Call("GetSettingValue", ADDON_SETTINGS_ID) EXCEPT
                      !.key = g[1], !.arg = Zero(g[2]), !.ret = r.ret, !.out = r.value])

DoUpdateSetting ==
  \E id \in InstanceIds, u \in UntypedUpdates \cup {<<"", "0">>} :
    /\ u[1] = "" => id = ADDON_SETTINGS_ID
    /\ Commit(UpdateSetting(Cur, u[1], u[2], id),
              [Call("UpdateSetting", id) EXCEPT !.key = u[1], !.str = u[2]])

\* UpdateSettingBool, UpdateSettingInt, UpdateSettingString
DoUpdateSettingValue ==
  \E u \in TypedUpdates \cup {<<"", BoolV(FALSE)>>} :
    LET r == UpdateSettingValue(Cur, u[1], u[2], ADDON_SETTINGS_ID)
    IN Commit(r.s, [Call("UpdateSettingValue", ADDON_SETTINGS_ID) EXCEPT
                      !.key = u[1], !.arg = u[2], !.ret = r.ret])

DoSettingsFromXML ==
  \E doc \in CallerDocs, loadDefaults \in BOOLEAN :
    LET r == SettingsFromXML(Cur, doc, loadDefaults, ADDON_SETTINGS_ID)
    IN Commit(r.s, [Call("SettingsFromXML", ADDON_SETTINGS_ID) EXCEPT !.ret = r.ret])

DoGetSettings ==
  Commit(GetSettings(Cur, ADDON_SETTINGS_ID).s, Call("GetSettings", ADDON_SETTINGS_ID))

Next ==
  \/ DoConstruct
  \/ SchemaFileChanges
  \/ UserFileChanges
  \/ DoHasSettings
  \/ DoSettingsInitialized
  \/ DoSettingsLoaded
  \/ DoLoadSettings
  \/ DoHasUserSettings
  \/ DoReloadSettings
  \/ DoResetSettings
  \/ DoLoadUserSettings
  \/ DoHasSettingsToSave
  \/ DoSaveSettings
  \/ DoGetSetting
  \/ DoGetSettingValue
  \/ DoUpdateSetting
  \/ DoUpdateSettingValue
  \/ DoSettingsFromXML
  \/ DoGetSettings

Spec == Init /\ [][Next]_vars

\* ------------------------------------------------------------------ properties

\* The schema file is present and a well-formed settings definition.
SchemaValid == schemaFile.parses /\ schemaFile.doc.root /\ schemaFile.doc.schema # "bad"

\* C1 as stated: once a LoadSettings call has failed on the schema, every
\* LoadSettings(force=false) call returns false and does not read the schema
\* file.
C1_FailureAlwaysReturnsFalse ==
  hist.schemaFailed =>
    \A loadUserSettings \in BOOLEAN :
      LET r == LoadSettings(Cur, FALSE, loadUserSettings, ADDON_SETTINGS_ID)
      IN ~r.ret /\ r.s.tr.schemaReads = 0

\* C1 (amended): once a LoadSettings call has failed on the schema, a
\* LoadSettings(force=false) call never reads the schema file again, whatever
\* the file now holds; it returns false unless the store is initialized by
\* now, which only SettingsFromXML can have done, and true then.
C1_FailureIsSticky ==
  hist.schemaFailed =>
    \A loadUserSettings \in BOOLEAN :
      LET r == LoadSettings(Cur, FALSE, loadUserSettings, ADDON_SETTINGS_ID)
      IN /\ r.s.tr.schemaReads = 0
         /\ r.ret = SettingsInitialized(Cur, ADDON_SETTINGS_ID)
         /\ r.ret => hist.xmlInit

\* C1 witness: a LoadSettings(force=false) call returned false without a read
\* of the schema file, after an earlier failure, with a valid schema on disk.
C1_Witness ==
  /\ call.op = "LoadSettings" /\ ~call.force /\ ~call.ret
  /\ call.tr.schemaReads = 0 /\ ~call.tr.schemaFail
  /\ hist.schemaFailed /\ SchemaValid

\* C2 as stated: after a failed load attempt, a forced reload reads the
\* schema file again and, if the schema is now valid, initializes the store
\* and returns true.
C2_ForcedReloadRetries ==
  hist.schemaFailed =>
    LET r == ReloadSettings(Cur, ADDON_SETTINGS_ID)
    IN /\ r.s.tr.schemaReads >= 1
       /\ SchemaValid => r.ret /\ SettingsInitialized(r.s, ADDON_SETTINGS_ID)

\* C3: in every reachable state SettingsLoaded() implies SettingsInitialized().
C3_LoadedImpliesInitialized ==
  \A id \in InstanceIds : SettingsLoaded(Cur, id) => SettingsInitialized(Cur, id)

\* C3 witness: LoadUserSettings has returned true and the store is loaded.
C3_Witness ==
  /\ call.op = "LoadUserSettings" /\ call.ret
  /\ SettingsLoaded(Cur, ADDON_SETTINGS_ID)

\* C4 as stated: settings under different instance ids are independent: an
\* update of a key under id a leaves the value read for the key under
\* another id b unchanged, and ResetSettings for id a leaves
\* SettingsInitialized and SettingsLoaded for id b unchanged.
C4_InstancesIndependent ==
  \A a \in InstanceIds, b \in InstanceIds :
    a # b =>
      /\ \A u \in UntypedUpdates :
           GetSetting(UpdateSetting(Cur, u[1], u[2], a), u[1], b).ret
             = GetSetting(Cur, u[1], b).ret
      /\ \A u \in TypedUpdates :
           GetSetting(UpdateSettingValue(Cur, u[1], u[2], a).s, u[1], b).ret
             = GetSetting(Cur, u[1], b).ret
      /\ SettingsInitialized(ResetSettings(Cur, a), b) = SettingsInitialized(Cur, b)
      /\ SettingsLoaded(ResetSettings(Cur, a), b) = SettingsLoaded(Cur, b)

\* No settings can be seen: HasSettings() is false and GetSetting returns
\* the empty string for every key.
NoSettingsVisible ==
  \A id \in InstanceIds :
    /\ ~HasSettings(Cur, id).ret
    /\ \A key \in KeyArgs : GetSetting(Cur, key, id).ret = ""

\* C5 as stated: for an add-on with no schema file, in every reachable state
\* HasSettings() is false and GetSetting(key) is empty for every key.
C5_NoSchemaNeverSettings == hist.noSchema => NoSettingsVisible

\* C5 (amended): for an add-on with no schema file, in every reachable state
\* in which SettingsFromXML has not initialized the store from its caller's
\* document, HasSettings() is false and GetSetting(key) is empty for every key.
C5_NoSchemaNoSettings == hist.noSchema /\ ~hist.xmlInit => NoSettingsVisible

\* C5 witness: with no schema file ever, a load was tried and failed, and
\* GetSetting of k returned the empty string.
C5_Witness ==
  /\ hist.noSchema /\ ~hist.xmlInit /\ m_loadSettingsFailed
  /\ call.op = "GetSetting" /\ call.key = "k" /\ call.str = ""

\* The typed getter reads the key and value of the phase, and
\* HasUserSettings() has the given value.
ReadsPhaseValue(hasUser) ==
  /\ LET g == GetSettingValue(Cur, hist.mval.type, hist.mkey, Zero(hist.mval.type),
                              ADDON_SETTINGS_ID)
     IN g.ret /\ g.value = hist.mval
  /\ HasUserSettings(Cur, ADDON_SETTINGS_ID).ret = hasUser

\* C6 as stated: with a valid schema defining k and no user-values file,
\* after a typed update of k to v that returned true, then SaveSettings(), a
\* new facade on the same files reads k = v through the typed getter and
\* reports HasUserSettings() true.
C6_RoundTripFromAnyState == hist.phase = "restored" => ReadsPhaseValue(TRUE)

\* C6 (amended): the same, provided the store is loaded once the typed update
\* has returned (as it is when the update itself loads the settings; it is
\* not after LoadSettings(false, false), and SaveSettings then writes nothing).
C6_RoundTrip == hist.phase = "restored" /\ hist.mloaded => ReadsPhaseValue(TRUE)

\* C6 witness: the new facade has read k = false, which is not k's default.
C6_Witness ==
  /\ hist.phase = "restored" /\ hist.mloaded /\ hist.mval = BoolV(FALSE)
  /\ call.op = "GetSettingValue" /\ call.key = hist.mkey /\ call.ret
  /\ call.out = hist.mval

\* C7: on a new facade with a valid schema defining k with default d and no
\* user-values file, the first typed get of k returns true and d, the store
\* is loaded and HasUserSettings() is false, and so it stays under queries
\* and gets.
C7_DefaultsWithoutUserFile ==
  hist.phase = "got" =>
    /\ ReadsPhaseValue(FALSE)
    /\ SettingsLoaded(Cur, ADDON_SETTINGS_ID)
    /\ (call.op = "GetSettingValue" /\ call.key = hist.mkey
          /\ call.arg.type = hist.mval.type) => (call.ret /\ call.out = hist.mval)

\* C7 witness: after the first typed get and later queries HasUserSettings()
\* has returned false.
C7_Witness ==
  /\ hist.phase = "got" /\ hist.mkey = "k" /\ hist.mval = BoolV(TRUE)
  /\ call.op = "HasUserSettings" /\ ~call.ret

\* C8: with a user-values file that is present and does not parse,
\* LoadUserSettings() returns false, SettingsLoaded() is as before the call
\* and GetSetting(k) returns for every key what it returned before the call.
C8_UnparsableUserFile ==
  (userFile.exists /\ ~userFile.parses) =>
    LET r == LoadUserSettings(Cur, ADDON_SETTINGS_ID)
    IN /\ ~r.ret
       /\ SettingsLoaded(r.s, ADDON_SETTINGS_ID) = SettingsLoaded(Cur, ADDON_SETTINGS_ID)
       /\ \A key \in Keys :
            GetSetting(r.s, key, ADDON_SETTINGS_ID).ret
              = GetSetting(Cur, key, ADDON_SETTINGS_ID).ret

\* C8 witness: LoadUserSettings read the unparsable file and returned false
\* on a store that is initialized and not loaded.
C8_Witness ==
  /\ call.op = "LoadUserSettings" /\ ~call.ret /\ call.tr.userReads = 1
  /\ userFile.exists /\ ~userFile.parses
  /\ SettingsInitialized(Cur, ADDON_SETTINGS_ID)
  /\ ~SettingsLoaded(Cur, ADDON_SETTINGS_ID)

\* C9: a typed get of a key whose stored type is not the type asked for
\* returns false and leaves the caller's variable unchanged; a typed update
\* of an existing key of another type returns false and leaves the key's
\* stored value and type unchanged.
C9_TypeMismatchFails ==
  \A key \in Keys, type \in Types :
    \A value \in ValuesOf(type) :
      LET h == HasSettings(Cur, ADDON_SETTINGS_ID)
          before == StoreGetSetting(h.s.m_settings, key)
          g == GetSettingValue(Cur, type, key, value, ADDON_SETTINGS_ID)
          u == UpdateSettingValue(Cur, key, value, ADDON_SETTINGS_ID)
      IN (before.found /\ before.node.val.type # type) =>
           /\ ~g.ret /\ g.value = value
           /\ ~u.ret /\ u.s.m_settings.nodes[key] = before.node

\* C9 witness: GetSettingInt of n failed on n defined as a string.
C9_Witness ==
  /\ call.op = "GetSettingValue" /\ call.key = "n" /\ call.arg.type = "integer"
  /\ ~call.ret /\ call.out = call.arg
  /\ m_settings.nodes["n"].defined /\ m_settings.nodes["n"].val.type = "string"

\* C10 as stated: whenever the schema is initialized, whatever number of
\* keys it defines, a typed update of a non-empty key that is not defined
\* defines it with the type of the value, assigns the value and returns true,
\* as the untyped UpdateSetting defines the key as a string in the same state.
C10_TypedUpdateDefines ==
  SettingsInitialized(Cur, ADDON_SETTINGS_ID) =>
    \A key \in Keys :
      ~StoreGetSetting(m_settings, key).found =>
        /\ \A type \in Types :
             \A value \in ValuesOf(type) :
               LET u == UpdateSettingValue(Cur, key, value, ADDON_SETTINGS_ID)
               IN /\ u.ret
                  /\ StoreGetSetting(u.s.m_settings, key).found
                  /\ u.s.m_settings.nodes[key].val = value
        /\ \A str \in StrVals :
             LET u == UpdateSetting(Cur, key, str, ADDON_SETTINGS_ID)
             IN /\ StoreGetSetting(u.m_settings, key).found
                /\ u.m_settings.nodes[key].val = StrV(str)

\* C11: no call reads, looks for or writes the user-values file while the
\* settings are not initialized, and only SaveSettings writes it.
C11_UserFileOnlyWhenInitialized ==
  /\ ~call.tr.userEarly
  /\ call.tr.userWrites > 0 => call.op = "SaveSettings"

\* C11 witness: SaveSettings has written the user-values file, on initialized
\* settings.
C11_Witness ==
  /\ call.op = "SaveSettings" /\ call.tr.userWrites = 1
  /\ SettingsInitialized(Cur, ADDON_SETTINGS_ID)

\* The lifecycle state of the settings: Absent, Initialized or Loaded.
Lifecycle(s) ==
  IF SettingsLoaded(s, ADDON_SETTINGS_ID) THEN "Loaded"
  ELSE IF SettingsInitialized(s, ADDON_SETTINGS_ID) THEN "Initialized"
  ELSE "Absent"

\* C12 as stated: a LoadSettings call, forced or not, that fails on a schema
\* file that does not parse, and a LoadUserSettings call that fails on a
\* user-values file that does not parse, leave the lifecycle state of the
\* settings as it was before the call.
C12_ParseFailureKeepsLifecycle ==
  /\ (schemaFile.exists /\ ~schemaFile.parses) =>
       \A bForce \in BOOLEAN, loadUserSettings \in BOOLEAN :
         LET r == LoadSettings(Cur, bForce, loadUserSettings, ADDON_SETTINGS_ID)
         IN (~r.ret /\ r.s.tr.schemaFail) => Lifecycle(r.s) = Lifecycle(Cur)
  /\ (userFile.exists /\ ~userFile.parses) =>
       LET r == LoadUserSettings(Cur, ADDON_SETTINGS_ID)
       IN (~r.ret /\ r.s.tr.userReads > 0) => Lifecycle(r.s) = Lifecycle(Cur)

\* The call that left s has initialized the settings from the schema file.
InitializedFromSchema(s) ==
  SettingsInitialized(s, ADDON_SETTINGS_ID) /\ s.tr.schemaReads > 0

\* C13 as stated: after ResetSettings, SettingsInitialized() and
\* SettingsLoaded() are false, and the next access (HasSettings, GetSetting,
\* an update or GetSettings) initializes the settings from the schema file
\* whenever that file is present and valid, whatever came before the reset.
C13_ResetThenAccessReinitializes ==
  \A id \in InstanceIds :
    LET z == ResetSettings(Cur, id)
    IN /\ ~SettingsInitialized(z, id) /\ ~SettingsLoaded(z, id)
       /\ SchemaValid =>
            /\ InitializedFromSchema(HasSettings(z, id).s)
            /\ InitializedFromSchema(GetSetting(z, "k", id).s)
            /\ InitializedFromSchema(UpdateSetting(z, "n", "0", id))
            /\ InitializedFromSchema(UpdateSettingValue(z, "k", BoolV(FALSE), id).s)
            /\ InitializedFromSchema(GetSettings(z, id).s)

\* C14 as stated: when LoadUserSettings returns true with no user-values
\* file on disk, the settings are loaded and every setting holds its default,
\* whatever updates were made and not saved before.
C14_NoUserFileGivesDefaults ==
  ~userFile.exists =>
    LET r == LoadUserSettings(Cur, ADDON_SETTINGS_ID)
    IN r.ret =>
         /\ SettingsLoaded(r.s, ADDON_SETTINGS_ID)
         /\ \A key \in Keys :
              r.s.m_settings.nodes[key].defined =>
                r.s.m_settings.nodes[key].val = r.s.m_settings.nodes[key].def

\* C15: SaveSettings on settings that are not loaded changes nothing: no
\* file written, no notification sent, m_hasUserSettings and the store as
\* before; on loaded settings it notifies the host once and HasUserSettings()
\* is true after it.
C15_SaveOnlyWhenLoaded ==
  \A id \in InstanceIds :
    LET z == SaveSettings(Cur, id)
    IN IF ~SettingsLoaded(Cur, id)
       THEN z = Cur
       ELSE z.tr.notifies = 1 /\ HasUserSettings(z, id).ret

\* C15 witness: SaveSettings on loaded settings has written the file and
\* notified the host once.
C15_Witness ==
  /\ call.op = "SaveSettings" /\ call.tr.notifies = 1 /\ call.tr.userWrites = 1
  /\ m_hasUserSettings /\ SettingsLoaded(Cur, ADDON_SETTINGS_ID)

\* The call that led from the facade as it is to s read the schema file at
\* most once, left the store as it was if the settings were initialized, and
\* left the value of every setting defined before it as it was.
NoReload(s) ==
  /\ s.tr.schemaReads <= 1
  /\ SettingsInitialized(Cur, ADDON_SETTINGS_ID) => s.m_settings = m_settings
  /\ \A key \in Keys :
       m_settings.nodes[key].defined => s.m_settings.nodes[key] = m_settings.nodes[key]

\* C16: SettingsInitialized, SettingsLoaded and HasSettingsToSave read and
\* write no file; HasSettings and HasUserSettings read the schema file at most
\* once per call, never uninitialize or reset initialized settings and never
\* change the value of a setting.
C16_QueriesNeverReload ==
  /\ call.op \in {"SettingsInitialized", "SettingsLoaded", "HasSettingsToSave"} =>
       call.tr = NoTrace
  /\ \A id \in InstanceIds :
       /\ NoReload(HasSettings(Cur, id).s)
       /\ NoReload(HasUserSettings(Cur, id).s)

\* C16 witness: HasSettings has loaded the settings, reading the schema file
\* once.
C16_Witness ==
  /\ call.op = "HasSettings" /\ call.ret /\ call.tr.schemaReads = 1
  /\ SettingsLoaded(Cur, ADDON_SETTINGS_ID)

\* The call that left s neither read the schema file nor called Initialize,
\* and the settings are initialized after it.
NotInitializedAgain(s) ==
  /\ s.tr.schemaReads = 0 /\ s.tr.initCalls = 0
  /\ SettingsInitialized(s, ADDON_SETTINGS_ID)

\* C17: LoadSettings(force=false) on initialized settings returns true and
\* changes nothing: no file is read, and the store, m_hasUserSettings and
\* m_loadSettingsFailed are as before; and no operation other than a forced
\* load or ResetSettings reads the schema file or initializes the settings
\* again once they are initialized.
C17_InitializedOnce ==
  SettingsInitialized(Cur, ADDON_SETTINGS_ID) =>
    /\ \A loadUserSettings \in BOOLEAN :
         LoadSettings(Cur, FALSE, loadUserSettings, ADDON_SETTINGS_ID) = R(Cur, TRUE)
    /\ NotInitializedAgain(HasSettings(Cur, ADDON_SETTINGS_ID).s)
    /\ NotInitializedAgain(HasUserSettings(Cur, ADDON_SETTINGS_ID).s)
    /\ NotInitializedAgain(LoadUserSettings(Cur, ADDON_SETTINGS_ID).s)
    /\ NotInitializedAgain(SaveSettings(Cur, ADDON_SETTINGS_ID))
    /\ NotInitializedAgain(GetSettings(Cur, ADDON_SETTINGS_ID).s)
    /\ \A key \in KeyArgs :
         NotInitializedAgain(GetSetting(Cur, key, ADDON_SETTINGS_ID).s)
    /\ \A g \in TypedGets :
         NotInitializedAgain(
           GetSettingValue(Cur, g[2], g[1], Zero(g[2]), ADDON_SETTINGS_ID).s)
    /\ \A u \in UntypedUpdates :
         NotInitializedAgain(UpdateSetting(Cur, u[1], u[2], ADDON_SETTINGS_ID))
    /\ \A u \in TypedUpdates :
         NotInitializedAgain(UpdateSettingValue(Cur, u[1], u[2], ADDON_SETTINGS_ID).s)
    /\ \A doc \in CallerDocs, loadDefaults \in BOOLEAN :
         NotInitializedAgain(SettingsFromXML(Cur, doc, loadDefaults, ADDON_SETTINGS_ID).s)

\* C17 witness: LoadSettings(force=false) has returned true on settings that
\* are initialized and not loaded, without a file access, and they are still
\* not loaded.
C17_Witness ==
  /\ call.op = "LoadSettings" /\ ~call.force /\ call.ret /\ call.tr = NoTrace
  /\ SettingsInitialized(Cur, ADDON_SETTINGS_ID)
  /\ ~SettingsLoaded(Cur, ADDON_SETTINGS_ID)

\* C18 as stated: no call of the facade calls the store's Initialize on a
\* store that is initialized at that moment, the call in SettingsFromXML on a
\* facade whose store GetSettings has yet to create included.
C18_InitializeOnlyUninitialized == ~call.tr.initOnInit

\* The calls that are a LoadSettings call.
LoadCalls == {"LoadSettings", "ReloadSettings"}

\* C19 as stated: in one call of any public operation every LoadSettings
\* that GetSettings starts returns at once on m_loadSettingsFailed; the schema
\* file is read at most once, and Initialize is called at most once in a
\* LoadSettings call.
C19_LazyLoadAlwaysReturnsAtOnce ==
  /\ ~call.tr.lazyAttempt
  /\ call.tr.schemaReads <= 1
  /\ call.op \in LoadCalls => call.tr.initCalls <= 1

\* C19 (amended): in one LoadSettings call every LoadSettings that
\* GetSettings starts returns at once on m_loadSettingsFailed, and Initialize
\* is called at most once; only in a call of GetSettings or SettingsFromXML
\* on a facade without store does the LoadSettings started by GetSettings
\* attempt the load; in one call of any public operation the schema file is
\* read at most once and GetSettings starts LoadSettings at most once.
C19_LazyLoadBounded ==
  /\ call.tr.lazyAttempt => call.op \in {"GetSettings", "SettingsFromXML"}
  /\ call.tr.lazyLoads <= 1
  /\ call.tr.schemaReads <= 1
  /\ call.op \in LoadCalls => call.tr.initCalls <= 1

\* C19 witness: a LoadSettings call has read the schema file and initialized
\* the store that GetSettings created within it, and the LoadSettings that
\* GetSettings started has returned on m_loadSettingsFailed.
C19_Witness ==
  /\ call.op = "LoadSettings" /\ call.ret
  /\ call.tr.lazyLoads = 1 /\ ~call.tr.lazyAttempt
  /\ call.tr.schemaReads = 1 /\ call.tr.initCalls = 1

\* The result of a LoadSettings call is SettingsInitialized() after the call.
ReturnsInitialized(r) == r.ret = SettingsInitialized(r.s, ADDON_SETTINGS_ID)

\* C20: LoadSettings(force=false, loadUserSettings) returns, in every
\* reachable state, what SettingsInitialized() returns right after the call;
\* it returns true also when the LoadUserSettings it called returned false,
\* and the settings are then initialized and not loaded.
C20_ResultIsInitialized ==
  /\ \A loadUserSettings \in BOOLEAN :
       ReturnsInitialized(
         LoadSettings(Cur, FALSE, loadUserSettings, ADDON_SETTINGS_ID))
  /\ (call.op = "LoadSettings" /\ ~call.force)
       => call.ret = SettingsInitialized(Cur, ADDON_SETTINGS_ID)

\* C20 witness: LoadSettings(force=false) read the schema file and the
\* unparsable user file and returned true; the settings are initialized and
\* not loaded.
C20_Witness ==
  /\ call.op = "LoadSettings" /\ ~call.force /\ call.ret
  /\ call.tr.schemaReads = 1 /\ call.tr.userReads = 1
  /\ userFile.exists /\ ~userFile.parses
  /\ SettingsInitialized(Cur, ADDON_SETTINGS_ID)
  /\ ~SettingsLoaded(Cur, ADDON_SETTINGS_ID)

====
